---- MODULE Spec2Model ----
(***************************************************************************)
(* A model of the MPEG-PS demuxer, modules/demux/mpeg/ps.c: the            *)
(* resynchronizer (ps_pkt_resynch), the packet reader (ps_pkt_read), the   *)
(* length estimation (FindLength, Demux2), the demux step (Demux) and the  *)
(* control surface (Control).                                              *)
(*                                                                         *)
(* Three specifications share the variables:                               *)
(*   SpecPkt  the two byte-level routines applied to bounded byte streams, *)
(*   SpecLen  the longest-track selection applied to timestamp tables,     *)
(*   Spec     the engine: Demux and Control calls on a whole input file.   *)
(***************************************************************************)
EXTENDS Integers, Sequences, FiniteSets, TLC

VARIABLES
    s,      \* the byte source: [data, pos, info, seekable]
    cfg,    \* the configuration: [trust], the ps-trust-timestamps option
    p_sys,  \* demux_sys_t
    out,    \* what the es_out has been asked to do so far
    last    \* the last call: its kind, arguments, return value and effects

vars == <<s, cfg, p_sys, out, last>>

(***************************************************************************)
(* Wire format and return codes.                                           *)
(***************************************************************************)
PS_STREAM_ID_END_STREAM == 185
PS_STREAM_ID_PACK_HEADER == 186
PS_STREAM_ID_SYSTEM_HEADER == 187
PS_STREAM_ID_MAP == 188
PS_STREAM_ID_PRIVATE_STREAM1 == 189

\* the peek window of ps_pkt_resynch
PS_RESYNCH_WINDOW == 512
\* the size of the CDXA sector trailer and header skipped as padding
PS_CDXA_SKIP == 48
\* the lookahead increment of ps_pkt_read's start code search
PS_READ_STEP == 1024
\* the header peek of ps_pkt_read
PS_READ_PEEK == 14

Min(a, b) == IF a < b THEN a ELSE b
Max(a, b) == IF a > b THEN a ELSE b

\* the least offset of hits, the offsets at which a scan would stop, or none
\* when the scan stops nowhere
FirstOf(hits, none) ==
    IF hits = {} THEN none ELSE CHOOSE i \in hits : \A j \in hits : i <= j

(***************************************************************************)
(* The byte source.  data is the whole input, pos the read position.       *)
(***************************************************************************)
\* vlc_stream_Peek: up to n bytes from pos, nothing consumed
vlc_stream_Peek(data, pos, n) ==
    SubSeq(data, pos + 1, Min(Len(data), pos + n))

\* vlc_stream_Read( s, NULL, n ): the number of bytes actually skipped
vlc_stream_Read(data, pos, n) ==
    IF n < 0 THEN 0 ELSE Min(n, Len(data) - pos)

\* a block_t: the bytes off .. off+len-1 of the input; NULL has null set
NullBlock(pos) == [null |-> TRUE, off |-> pos, len |-> 0]

\* vlc_stream_Block: a block of up to n bytes, NULL when none is read
vlc_stream_Block(data, pos, n) ==
    LET got == IF n < 0 THEN 0 ELSE Min(n, Len(data) - pos)
    IN  IF got <= 0 THEN NullBlock(pos)
        ELSE [null |-> FALSE, off |-> pos, len |-> got]

\* p[i] of the C code, for a peeked sequence p (0-based)
At(p, i) == p[i + 1]

\* 00 00 01 followed by an id >= 0xB9 at offset i of p
IsStartCode(p, i) ==
    /\ At(p, i) = 0 /\ At(p, i + 1) = 0 /\ At(p, i + 2) = 1
    /\ At(p, i + 3) >= PS_STREAM_ID_END_STREAM

(***************************************************************************)
(* ps_pkt_size (ps.h): the size a header declares, -1 when it cannot be    *)
(* told from the peeked bytes.                                             *)
(***************************************************************************)
ps_pkt_size(p, i_peek) ==
    IF i_peek < 4 THEN -1
    ELSE IF At(p, 3) = PS_STREAM_ID_END_STREAM THEN 4
    ELSE IF At(p, 3) = PS_STREAM_ID_PACK_HEADER THEN
        IF i_peek >= 14 /\ At(p, 4) \div 64 = 1 THEN 14 + (At(p, 13) % 8)
        ELSE IF i_peek >= 12 /\ At(p, 4) \div 16 = 2 THEN 12
        ELSE -1
    ELSE IF i_peek >= 6 THEN 6 + At(p, 4) * 256 + At(p, 5)
    ELSE -1

(***************************************************************************)
(* ps_pkt_resynch: [ret, skip], ret in {-1, 0, 1} and skip the number of   *)
(* bytes consumed from the stream.                                         *)
(***************************************************************************)
CdxaSyncCode == <<0, 255, 255, 255, 255, 255, 255, 255, 255, 255, 255, 0>>

\* while( i<24 && p_peek[i] == 0 ) i++;  (p holds at least 48 bytes)
CdxaZeroRun(p) == FirstOf({i \in 0..23 : At(p, i) # 0}, 24)

\* the mid stream padding + CRC followed by the CDXA sync code
CdxaPadding(p) ==
    /\ CdxaZeroRun(p) = 20
    /\ SubSeq(p, 25, 36) = CdxaSyncCode

\* ResynchHit without the test of b_pack
ResynchHitAnyHeader(p, i, b_pack) ==
    /\ IsStartCode(p, i)

\* the header test of the scan loop, at offset i of the peeked window
ResynchHit(p, i, b_pack) ==
    /\ IsStartCode(p, i)
    /\ (~b_pack \/ At(p, i + 3) = PS_STREAM_ID_PACK_HEADER)

\* return vlc_stream_Read( s, NULL, i_skip ) == i_skip ? ret : -1
ResynchReturn(data, pos, ret, i_skip) ==
    IF vlc_stream_Read(data, pos, i_skip) = i_skip
    THEN [ret |-> ret, skip |-> i_skip]
    ELSE [ret |-> -1, skip |-> vlc_stream_Read(data, pos, i_skip)]

\* the end of the for(;;) loop: at the first header met (hit >= 0), or with
\* fewer than 4 bytes of the window left
ResynchScanned(data, pos, p, start, hit) ==
    IF hit >= 0 THEN ResynchReturn(data, pos, 1, hit)
    ELSE ResynchReturn(data, pos, 0, Max(start, Len(p) - 3))

\* the for(;;) loop from i_skip = start: the window is scanned byte by byte
ResynchLoop(data, pos, p, b_pack, start) ==
    ResynchScanned(data, pos, p, start,
                   FirstOf({i \in start..(Len(p) - 4) :
                                ResynchHit(p, i, b_pack)}, -1))

\* the 512 byte window: the padding skip is tried once, at i_skip = 0
ResynchWindow(data, pos, p, b_cdxa, b_pack) ==
    IF Len(p) < 4 THEN [ret |-> -1, skip |-> 0]
    ELSE ResynchLoop(data, pos, p, b_pack,
                     IF b_cdxa /\ Len(p) >= PS_CDXA_SKIP /\ CdxaPadding(p)
                     THEN PS_CDXA_SKIP ELSE 0)

\* ps_pkt_resynch peeking twice the window
ps_pkt_resynch_wide(data, pos, b_cdxa, b_pack) ==
    IF Len(vlc_stream_Peek(data, pos, 4)) < 4 THEN [ret |-> -1, skip |-> 0]
    ELSE IF IsStartCode(vlc_stream_Peek(data, pos, 4), 0)
    THEN [ret |-> 1, skip |-> 0]
    ELSE ResynchWindow(data, pos,
                       vlc_stream_Peek(data, pos, 2 * PS_RESYNCH_WINDOW),
                       b_cdxa, b_pack)

ps_pkt_resynch(data, pos, b_cdxa, b_pack) ==
    IF Len(vlc_stream_Peek(data, pos, 4)) < 4 THEN [ret |-> -1, skip |-> 0]
    ELSE IF IsStartCode(vlc_stream_Peek(data, pos, 4), 0)
    THEN [ret |-> 1, skip |-> 0]
    ELSE ResynchWindow(data, pos,
                       vlc_stream_Peek(data, pos, PS_RESYNCH_WINDOW),
                       b_cdxa, b_pack)

(***************************************************************************)
(* ps_pkt_read: [blk, scan], blk the block returned (blk.null for NULL)    *)
(* and scan whether the start code search was entered.                     *)
(***************************************************************************)
RECURSIVE ReadSearch(_, _, _)

\* the inner while of the search, over the bytes peeked
ReadSearchFound(data, pos, i_peek, hit) ==
    IF hit >= 0 THEN vlc_stream_Block(data, pos, hit)
    ELSE ReadSearch(data, pos, i_peek - 3)

ReadSearchPeeked(data, pos, i_size, p) ==
    IF Len(p) <= i_size + 4 THEN NullBlock(pos)
    ELSE ReadSearchFound(data, pos, Len(p),
                         FirstOf({i \in i_size..(Len(p) - 4) :
                                      IsStartCode(p, i)}, -1))

\* one round of the for(;;) of the search, from offset i_size of the packet
ReadSearch(data, pos, i_size) ==
    ReadSearchPeeked(data, pos, i_size,
                     vlc_stream_Peek(data, pos, i_size + PS_READ_STEP))

\* ReadFallback without the test of the size
ReadFallbackAnySize(p, i_size) == At(p, 3) > PS_STREAM_ID_PACK_HEADER

\* whether ps_pkt_read takes the start code search for this header
ReadFallback(p, i_size) ==
    i_size <= 6 /\ At(p, 3) > PS_STREAM_ID_PACK_HEADER

\* ReadSized with the search taken on the size alone
ReadSizedAnyId(data, pos, p, i_size) ==
    IF i_size <= 6
    THEN [blk |-> ReadSearch(data, pos, 6), scan |-> TRUE]
    ELSE [blk |-> vlc_stream_Block(data, pos, i_size), scan |-> FALSE]

ReadSized(data, pos, p, i_size) ==
    IF ReadFallback(p, i_size)
    THEN [blk |-> ReadSearch(data, pos, 6), scan |-> TRUE]
    ELSE [blk |-> vlc_stream_Block(data, pos, i_size), scan |-> FALSE]

ReadPeeked(data, pos, p) ==
    IF Len(p) < 4 THEN [blk |-> NullBlock(pos), scan |-> FALSE]
    ELSE ReadSized(data, pos, p, ps_pkt_size(p, Len(p)))

ps_pkt_read(data, pos) ==
    ReadPeeked(data, pos, vlc_stream_Peek(data, pos, PS_READ_PEEK))

(***************************************************************************)
(* Values of the VLC core used by the engine.                              *)
(***************************************************************************)
VLC_SUCCESS == 0
VLC_EGENERIC == -1
VLC_DEMUXER_EOF == 0
VLC_DEMUXER_EGENERIC == -1
VLC_DEMUXER_SUCCESS == 1
VLC_TS_INVALID == 0
VLC_TS_0 == 1
CLOCK_FREQ == 1000000
BLOCK_FLAG_DISCONTINUITY == 1

\* the packets probed from the current position, and from the tail
PS_PROBE_HEAD == 40
PS_PROBE_TAIL == 400
\* how far from the end the tail probe starts
PS_TAIL_BYTES == 200000
\* the bytes OpenCommon peeks
PS_OPEN_PEEK == 16
\* psm.i_version before any map packet
PSM_VERSION_UNSET == 65535
\* the ceiling of the AOB/MLP counter
PS_AOB_MLP_MAX == 500
\* the offset added to the last SCR for a teletext packet without PTS
PS_TELETEXT_DELAY == 40000

\* es_format categories and the codecs the engine tests for
UNKNOWN_ES == "unknown"
VIDEO_ES == "video"
AUDIO_ES == "audio"
SPU_ES == "spu"

(***************************************************************************)
(* Tracks.  The engine holds one ps_track_t per id; the model holds the    *)
(* tracks of the ids its inputs carry, in the order of PS_ID_TO_TK: they   *)
(* are the domain of p_sys.tk, TkIds but for the AOB inputs of SpecAob.    *)
(***************************************************************************)
TkSeq == <<192, 224>>
TkIds == {TkSeq[i] : i \in 1..Len(TkSeq)}

\* ps_track_init (ps.h)
ps_track_init ==
    [i \in TkIds |->
        [b_seen |-> FALSE, es |-> FALSE, i_cat |-> UNKNOWN_ES,
         i_codec |-> "none", i_first_pts |-> -1, i_last_pts |-> -1,
         i_next_block_flags |-> 0]]

\* the ids ps_pkt_id gives the packets of private stream 1 in an AOB file:
\* 0xa001 (MLP) and 0xbda1 (the LPCM substream 0xa1)
PS_ID_AOB_MLP == 40961
PS_ID_LPCM_A1 == 48545

\* ps_track_fill (ps.h): the format of an id, by id range
ps_track_fill(i_id) ==
    IF i_id >= 224 /\ i_id <= 239
    THEN [ok |-> TRUE, i_cat |-> VIDEO_ES, i_codec |-> "mpgv"]
    ELSE IF i_id >= 192 /\ i_id <= 223
    THEN [ok |-> TRUE, i_cat |-> AUDIO_ES, i_codec |-> "mpga"]
    ELSE IF i_id = PS_ID_AOB_MLP
    THEN [ok |-> TRUE, i_cat |-> AUDIO_ES, i_codec |-> "mlp"]
    ELSE IF i_id = PS_ID_LPCM_A1
    THEN [ok |-> TRUE, i_cat |-> AUDIO_ES, i_codec |-> "lpcm"]
    ELSE [ok |-> FALSE, i_cat |-> UNKNOWN_ES, i_codec |-> "none"]

(***************************************************************************)
(* What the parsers of ps.h and pes.h find in a packet.  The input file    *)
(* carries, for each packet it was built from, what they return for it;    *)
(* any other block (a truncated packet, bytes that only look like a        *)
(* header) parses as nothing.                                              *)
(***************************************************************************)
NoInfo ==
    [len |-> 0, pes_ok |-> FALSE, pts |-> VLC_TS_INVALID,
     pack_ok |-> FALSE, scr |-> -1, mux |-> 0, sys_ok |-> FALSE, sys |-> {},
     psm_ok |-> FALSE, psm_version |-> 0, id |-> -1]

InfoOf(st, blk) ==
    IF blk.off \in DOMAIN st.info /\ st.info[blk.off].len = blk.len
    THEN st.info[blk.off] ELSE NoInfo

\* ps_pkt_id (ps.h): the stream id byte, or for a packet of private stream 1
\* the id made of its substream
ps_pkt_id(st, blk) ==
    IF /\ At(st.data, blk.off + 3) = PS_STREAM_ID_PRIVATE_STREAM1
       /\ InfoOf(st, blk).id >= 0
    THEN InfoOf(st, blk).id
    ELSE At(st.data, blk.off + 3)

\* ps_pkt_parse_pes (pes.h): [ok, pts]
PesOf(info) ==
    [ok |-> info.pes_ok,
     pts |-> IF info.pes_ok THEN info.pts ELSE VLC_TS_INVALID]

ps_pkt_parse_pes(st, blk) == PesOf(InfoOf(st, blk))

\* ps_pkt_parse_pack (ps.h): [ok, scr, mux]
PackOf(info) == [ok |-> info.pack_ok, scr |-> info.scr, mux |-> info.mux]

ps_pkt_parse_pack(st, blk) == PackOf(InfoOf(st, blk))

\* ps_pkt_parse_system (ps.h): the declared ids not seen yet are filled and
\* marked seen when their format resolves
SystemOf(info, tk) ==
    [ok |-> info.sys_ok,
     tk |-> [i \in DOMAIN tk |->
               IF /\ info.sys_ok
                  /\ i \in info.sys
                  /\ ~tk[i].b_seen
                  /\ ps_track_fill(i).ok
               THEN [tk[i] EXCEPT !.b_seen = TRUE,
                                  !.i_cat = ps_track_fill(i).i_cat,
                                  !.i_codec = ps_track_fill(i).i_codec]
               ELSE tk[i]]]

ps_pkt_parse_system(st, blk, tk) == SystemOf(InfoOf(st, blk), tk)

\* ps_psm_fill (ps.h): a map packet that parses is merged into the map, which
\* takes its version; the tracks are left as they are
PsmOf(info, i_version) == IF info.psm_ok THEN info.psm_version ELSE i_version

ps_psm_fill(st, blk, i_version) == PsmOf(InfoOf(st, blk), i_version)

\* vlc_stream_Seek: the source may refuse; a refused seek leaves the position
vlc_stream_Seek(st, offset, granted) ==
    IF st.seekable /\ granted /\ offset >= 0
    THEN [ok |-> TRUE, pos |-> Min(offset, Len(st.data))]
    ELSE [ok |-> FALSE, pos |-> st.pos]

(***************************************************************************)
(* Demux2: one packet of a probe.  [ret, pos, sys, read, freed]: read is    *)
(* the number of packets ps_pkt_read returned, freed the number of         *)
(* block_Release calls.                                                    *)
(***************************************************************************)
\* Demux2Track without the test "tk->i_first_pts == -1"
Demux2TrackOverwrites(tk, b_end, i_id, pes) ==
    IF i_id >= 192 /\ i_id \in DOMAIN tk /\ pes.ok
       /\ pes.pts > VLC_TS_INVALID
    THEN IF b_end /\ pes.pts > tk[i_id].i_last_pts
         THEN [tk EXCEPT ![i_id].i_last_pts = pes.pts]
         ELSE [tk EXCEPT ![i_id].i_first_pts = pes.pts]
    ELSE tk

\* the first and last timestamps of the packet's track
Demux2Track(tk, b_end, i_id, pes) ==
    IF i_id >= 192 /\ i_id \in DOMAIN tk /\ pes.ok
       /\ pes.pts > VLC_TS_INVALID
    THEN IF b_end /\ pes.pts > tk[i_id].i_last_pts
         THEN [tk EXCEPT ![i_id].i_last_pts = pes.pts]
         ELSE IF tk[i_id].i_first_pts = -1
         THEN [tk EXCEPT ![i_id].i_first_pts = pes.pts]
         ELSE tk
    ELSE tk

Demux2Packet(sys, b_end, blk, i_id, pes) ==
    [ret |-> VLC_DEMUXER_SUCCESS, pos |-> blk.off + blk.len,
     sys |-> [sys EXCEPT
                !.tk = Demux2Track(@, b_end, i_id, pes),
                !.b_have_pack = @ \/ i_id = PS_STREAM_ID_PACK_HEADER],
     read |-> 1, freed |-> 1]

Demux2Read(st, sys, b_end, blk) ==
    IF blk.null
    THEN [ret |-> VLC_DEMUXER_EOF, pos |-> blk.off, sys |-> sys,
          read |-> 0, freed |-> 0]
    ELSE Demux2Packet(sys, b_end, blk, ps_pkt_id(st, blk),
                      ps_pkt_parse_pes(st, blk))

Demux2Resynched(st, pos, sys, b_end, r) ==
    IF r.ret < 0
    THEN [ret |-> VLC_DEMUXER_EOF, pos |-> pos + r.skip, sys |-> sys,
          read |-> 0, freed |-> 0]
    ELSE IF r.ret = 0
    THEN [ret |-> VLC_DEMUXER_SUCCESS, pos |-> pos + r.skip,
          sys |-> [sys EXCEPT !.b_lost_sync = TRUE],
          read |-> 0, freed |-> 0]
    ELSE Demux2Read(st, [sys EXCEPT !.b_lost_sync = FALSE], b_end,
                    ps_pkt_read(st.data, pos + r.skip).blk)

Demux2(st, pos, sys, b_end) ==
    Demux2Resynched(st, pos, sys, b_end,
                    ps_pkt_resynch(st.data, pos, sys.b_cdxa,
                                   sys.b_have_pack))

\* while( i < n && Demux2( p_demux, b_end ) > 0 ) i++;  g counts the packets
\* read and released so far: [read, freed]
RECURSIVE ProbeLoop(_, _, _, _, _, _)

ProbeCount(g, d) == [read |-> g.read + d.read, freed |-> g.freed + d.freed]

ProbeNext(st, b_end, n, g, d) ==
    IF d.ret > 0
    THEN ProbeLoop(st, d.pos, d.sys, b_end, n - 1, ProbeCount(g, d))
    ELSE [pos |-> d.pos, sys |-> d.sys, g |-> ProbeCount(g, d)]

ProbeLoop(st, pos, sys, b_end, n, g) ==
    IF n = 0 THEN [pos |-> pos, sys |-> sys, g |-> g]
    ELSE ProbeNext(st, b_end, n, g, Demux2(st, pos, sys, b_end))

(***************************************************************************)
(* FindLength.  [ok, pos, sys, probe]: ok is its return value, probe what   *)
(* it did to the stream: whether it probed, the vlc_stream_Seek calls it   *)
(* made, the packets its probes read and released.                         *)
(***************************************************************************)
NoProbe == [probed |-> FALSE, seeks |-> 0, read |-> 0, freed |-> 0]

Probe(seeks, g) ==
    [probed |-> TRUE, seeks |-> seeks, read |-> g.read, freed |-> g.freed]

\* LongestStep without the comparison with the length found so far
LongestStepLast(sys, i, tk) ==
    IF /\ tk.i_last_pts > 0
       /\ tk.i_last_pts > tk.i_first_pts
    THEN [sys EXCEPT !.i_length = tk.i_last_pts - tk.i_first_pts,
                     !.i_time_track = i]
    ELSE sys

\* one round of the loop "Find the longest track", for the track tk of index i
LongestStep(sys, i, tk) ==
    IF /\ tk.i_last_pts > 0
       /\ tk.i_last_pts > tk.i_first_pts
       /\ tk.i_last_pts - tk.i_first_pts > sys.i_length
    THEN [sys EXCEPT !.i_length = tk.i_last_pts - tk.i_first_pts,
                     !.i_time_track = i]
    ELSE sys

RECURSIVE LongestFrom(_, _)
LongestFrom(sys, n) ==
    IF n > Len(TkSeq) THEN sys
    ELSE LongestFrom(LongestStep(sys, TkSeq[n], sys.tk[TkSeq[n]]), n + 1)

FindLongest(sys) == LongestFrom(sys, 1)

VLC_CLIP(v, lo, hi) == IF v < lo THEN lo ELSE IF v > hi THEN hi ELSE v

\* FindLengthFirst without "p_sys->i_length = 0"
FindLengthFirstUnmarked(sys) == sys

\* "First time": the length is known to have been looked for
FindLengthFirst(sys) == [sys EXCEPT !.i_length = 0]

\* after the seek back to i_current_pos
FindLengthRestored(tail, sk2) ==
    IF ~sk2.ok
    THEN [ok |-> FALSE, pos |-> sk2.pos, sys |-> tail.sys,
          probe |-> Probe(2, tail.g)]
    ELSE [ok |-> TRUE, pos |-> sk2.pos, sys |-> FindLongest(tail.sys),
          probe |-> Probe(2, tail.g)]

\* FindLengthTail with the stream left where the probe from the tail ended
FindLengthTailStays(st, i_current_pos, restore_ok, tail) ==
    FindLengthRestored(tail,
                       vlc_stream_Seek([st EXCEPT !.pos = tail.pos],
                                       tail.pos, restore_ok))

\* "Check end", after the probe from the tail
FindLengthTail(st, i_current_pos, restore_ok, tail) ==
    FindLengthRestored(tail,
                       vlc_stream_Seek([st EXCEPT !.pos = tail.pos],
                                       i_current_pos, restore_ok))

\* after the seek to the tail
FindLengthSeeked(st, i_current_pos, restore_ok, head, sk1) ==
    IF ~sk1.ok
    THEN [ok |-> FALSE, pos |-> sk1.pos, sys |-> head.sys,
          probe |-> Probe(1, head.g)]
    ELSE FindLengthTail(st, i_current_pos, restore_ok,
                        ProbeLoop(st, sk1.pos, head.sys, TRUE, PS_PROBE_TAIL,
                                  head.g))

\* "Check beginning", after the probe from the current position
FindLengthHead(st, tail_ok, restore_ok, head) ==
    FindLengthSeeked(st, st.pos, restore_ok, head,
                     vlc_stream_Seek([st EXCEPT !.pos = head.pos],
                                     Len(st.data)
                                       - VLC_CLIP(Len(st.data), 0,
                                                  PS_TAIL_BYTES),
                                     tail_ok))

FindLength(st, sys, trust, tail_ok, restore_ok) ==
    IF ~trust
    THEN [ok |-> TRUE, pos |-> st.pos, sys |-> sys, probe |-> NoProbe]
    ELSE IF sys.i_length # -1
    THEN [ok |-> TRUE, pos |-> st.pos, sys |-> FindLongest(sys),
          probe |-> NoProbe]
    ELSE FindLengthHead(st, tail_ok, restore_ok,
                        ProbeLoop(st, st.pos, FindLengthFirst(sys),
                                  FALSE, PS_PROBE_HEAD,
                                  [read |-> 0, freed |-> 0]))

(***************************************************************************)
(* NotifyDiscontinuity.  sel is the set of tracks for which the es_out     *)
(* answers ES_OUT_GET_ES_STATE with success and "selected".  The flags of  *)
(* a track are 0 or BLOCK_FLAG_DISCONTINUITY alone.                        *)
(***************************************************************************)
NotifyDiscontinuity(tk, sel) ==
    [i \in DOMAIN tk |->
        IF tk[i].b_seen /\ tk[i].es /\ i \in sel
        THEN [tk[i] EXCEPT !.i_next_block_flags = BLOCK_FLAG_DISCONTINUITY]
        ELSE tk[i]]

(***************************************************************************)
(* Demux.  The result carries the return value, the new position and       *)
(* demux_sys_t, and what the call did to the es_out and to the packet:     *)
(*   added     the tracks es_out_Add was called for,                       *)
(*   pcr       the ES_OUT_SET_PCR calls, in order ("scr" or "pts", value), *)
(*   sent      the buffers passed to es_out_Send (track, pts, flags),      *)
(*   released  the number of block_Release calls,                          *)
(*   notified  the number of NotifyDiscontinuity calls,                    *)
(*   sync      what ps_pkt_resynch returned,                               *)
(*   fl        FindLength: "none" (not called), "ok" or "failed",          *)
(*   pkt, id   the packet read and its id (pkt.null when none was read),   *)
(*   probe     what FindLength did to the stream,                          *)
(*   at        the position ps_pkt_resynch left the stream at.             *)
(***************************************************************************)
Effects(ret, pos, sys, sync, fl) ==
    [ret |-> ret, pos |-> pos, sys |-> sys, sync |-> sync, fl |-> fl,
     added |-> {}, pcr |-> <<>>, sent |-> <<>>, released |-> 0,
     notified |-> 0, pkt |-> NullBlock(pos), id |-> -1,
     probe |-> NoProbe, at |-> pos]

\* PackParsed with the SCR kept in i_last_scr only
PackParsedNoScr(sys, pk) ==
    IF pk.ok
    THEN [sys EXCEPT !.i_last_scr = pk.scr,
                     !.b_have_pack = TRUE,
                     !.i_mux_rate = IF pk.mux > 0 THEN pk.mux ELSE @]
    ELSE sys

\* case PS_STREAM_ID_PACK_HEADER
PackParsed(sys, pk) ==
    IF pk.ok
    THEN [sys EXCEPT !.i_scr = pk.scr,
                     !.i_last_scr = pk.scr,
                     !.b_have_pack = TRUE,
                     !.i_mux_rate = IF pk.mux > 0 THEN pk.mux ELSE @]
    ELSE sys

\* DemuxPack with the mux rate taken from every pack header parsed
DemuxPackAnyRate(st, blk, sys) ==
    IF ps_pkt_parse_pack(st, blk).ok
    THEN [PackParsed(sys, ps_pkt_parse_pack(st, blk))
            EXCEPT !.i_mux_rate = ps_pkt_parse_pack(st, blk).mux]
    ELSE sys

DemuxPack(st, blk, sys) == PackParsed(sys, ps_pkt_parse_pack(st, blk))

\* case PS_STREAM_ID_SYSTEM_HEADER: [tk, added]
SystemNeed(tk) ==
    {i \in DOMAIN tk :
         tk[i].b_seen /\ ~tk[i].es /\ tk[i].i_cat # UNKNOWN_ES}

SystemParsed(ps) ==
    IF ps.ok
    THEN [tk |-> [i \in DOMAIN ps.tk |->
                      IF i \in SystemNeed(ps.tk)
                      THEN [ps.tk[i] EXCEPT !.es = TRUE]
                      ELSE ps.tk[i]],
          added |-> SystemNeed(ps.tk)]
    ELSE [tk |-> ps.tk, added |-> {}]

DemuxSystem(st, blk, sys) ==
    SystemParsed(ps_pkt_parse_system(st, blk, sys.tk))

(***************************************************************************)
(* The elementary stream case of Demux, in the order of the code; each     *)
(* stage yields [sys, added, pcr, sent, released].                         *)
(***************************************************************************)
\* ESSend without "p_sys->i_scr = -1"
ESSendKeepsScr(sys, i_id, tk, b_new, pcr, pts) ==
    [sys |-> [sys EXCEPT
                !.tk = [@ EXCEPT ![i_id] =
                                   [tk EXCEPT !.i_next_block_flags = 0]],
                !.i_current_pts = IF pts > @ THEN pts ELSE @],
     added |-> IF b_new THEN {i_id} ELSE {},
     pcr |-> pcr,
     sent |-> <<[tk |-> i_id, pts |-> pts,
                 flags |-> tk.i_next_block_flags]>>,
     released |-> 0]

\* the buffer is stamped with the pending flags and sent; the SCR is consumed
ESSend(sys, i_id, tk, b_new, pcr, pts) ==
    [sys |-> [sys EXCEPT
                !.tk = [@ EXCEPT ![i_id] =
                                   [tk EXCEPT !.i_next_block_flags = 0]],
                !.i_current_pts = IF pts > @ THEN pts ELSE @,
                !.i_scr = -1],
     added |-> IF b_new THEN {i_id} ELSE {},
     pcr |-> pcr,
     sent |-> <<[tk |-> i_id, pts |-> pts,
                 flags |-> tk.i_next_block_flags]>>,
     released |-> 0]

\* ESRelease without the block_Release
ESReleaseLeaks(sys, i_id, tk, b_new, pcr) ==
    [sys |-> [sys EXCEPT !.tk = [@ EXCEPT ![i_id] = tk], !.i_scr = -1],
     added |-> IF b_new THEN {i_id} ELSE {},
     pcr |-> pcr, sent |-> <<>>, released |-> 0]

\* the buffer is released; the SCR is consumed
ESRelease(sys, i_id, tk, b_new, pcr) ==
    [sys |-> [sys EXCEPT !.tk = [@ EXCEPT ![i_id] = tk], !.i_scr = -1],
     added |-> IF b_new THEN {i_id} ELSE {},
     pcr |-> pcr, sent |-> <<>>, released |-> 1]

\* ESForced for a track of any category
ESForcedAnyTrack(sys, tk, b_new, pts) ==
    /\ (~b_new /\ ~sys.b_have_pack) \/ sys.b_bad_scr
    /\ pts > VLC_TS_INVALID

\* "A hack to sync the A/V on PES files"
ESForced(sys, tk, b_new, pts) ==
    /\ (~b_new /\ ~sys.b_have_pack) \/ sys.b_bad_scr
    /\ tk.i_cat = AUDIO_ES
    /\ pts > VLC_TS_INVALID

\* the timestamp of a teletext packet that has none
ESTeletext(sys, tk, pts) ==
    IF /\ tk.i_codec = "telx"
       /\ pts <= VLC_TS_INVALID
       /\ sys.i_last_scr >= 0
    THEN VLC_TS_0 + sys.i_last_scr + PS_TELETEXT_DELAY
    ELSE pts

\* ESForce with the pending flags dropped before the buffer is sent
ESForceUnstamped(sys, i_id, tk, b_new, pcr, pts) ==
    ESSend(sys, i_id, [tk EXCEPT !.i_next_block_flags = 0], b_new,
           IF ESForced(sys, tk, b_new, pts)
           THEN Append(pcr, [src |-> "pts", v |-> pts]) ELSE pcr,
           ESTeletext(sys, tk, pts))

ESForce(sys, i_id, tk, b_new, pcr, pts) ==
    ESSend(sys, i_id, tk, b_new,
           IF ESForced(sys, tk, b_new, pts)
           THEN Append(pcr, [src |-> "pts", v |-> pts]) ELSE pcr,
           ESTeletext(sys, tk, pts))

\* "Incorrect SCR timing in advance"
ESAdvanceBad(sys, tk, pts) ==
    /\ tk.i_cat \in {AUDIO_ES, VIDEO_ES}
    /\ ~sys.b_bad_scr /\ sys.i_scr > 0 /\ pts > 0
    /\ sys.i_scr > pts + CLOCK_FREQ \div 4

ESParsed(sys, i_id, tk, b_new, pcr, pes) ==
    IF tk.b_seen /\ tk.es /\ pes.ok
    THEN ESForce([sys EXCEPT
                    !.b_bad_scr = @ \/ ESAdvanceBad(sys, tk, pes.pts)],
                 i_id, tk, b_new, pcr, pes.pts)
    ELSE ESRelease(sys, i_id, tk, b_new, pcr)

\* ESOffsetBad with the operands of the difference exchanged
ESOffsetBadSwapped(sys, tk) ==
    /\ tk.i_cat \in {AUDIO_ES, VIDEO_ES}
    /\ tk.i_first_pts > VLC_TS_INVALID
    /\ sys.i_scr - tk.i_first_pts > CLOCK_FREQ

\* "Incorrect SCR timing offset"
ESOffsetBad(sys, tk) ==
    /\ tk.i_cat \in {AUDIO_ES, VIDEO_ES}
    /\ tk.i_first_pts > VLC_TS_INVALID
    /\ tk.i_first_pts - sys.i_scr > CLOCK_FREQ

\* if( p_sys->i_scr >= 0 && !p_sys->b_bad_scr ): disable the SCR or push it
ESScr(st, blk, sys, i_id, tk, b_new) ==
    IF sys.i_scr >= 0 /\ ~sys.b_bad_scr
    THEN IF ESOffsetBad(sys, tk)
         THEN ESParsed([sys EXCEPT !.b_bad_scr = TRUE], i_id, tk, b_new,
                       <<>>, ps_pkt_parse_pes(st, blk))
         ELSE ESParsed(sys, i_id, tk, b_new,
                       <<[src |-> "scr", v |-> VLC_TS_0 + sys.i_scr]>>,
                       ps_pkt_parse_pes(st, blk))
    ELSE ESParsed(sys, i_id, tk, b_new, <<>>, ps_pkt_parse_pes(st, blk))

\* WinSubMux subtitles: the SCR of the pack is dropped
ESSubtitle(st, blk, sys, i_id, tk, b_new) ==
    ESScr(st, blk,
          IF tk.b_seen /\ tk.i_codec \in {"ogt", "cvd"}
          THEN [sys EXCEPT !.i_scr = -1, !.i_last_scr = -1] ELSE sys,
          i_id, tk, b_new)

\* ESSeen without "tk->b_seen = true"
ESSeenUnmarked(tk, fill) ==
    IF tk.b_seen THEN tk
    ELSE IF fill.ok
    THEN [tk EXCEPT !.es = TRUE,
                    !.i_cat = fill.i_cat, !.i_codec = fill.i_codec]
    ELSE tk

\* if( !tk->b_seen ): the track is filled and its sink created
ESSeen(tk, fill) ==
    IF tk.b_seen THEN tk
    ELSE IF fill.ok
    THEN [tk EXCEPT !.b_seen = TRUE, !.es = TRUE,
                    !.i_cat = fill.i_cat, !.i_codec = fill.i_codec]
    ELSE [tk EXCEPT !.b_seen = TRUE]

ESTrack(st, blk, sys, i_id) ==
    ESSubtitle(st, blk, sys, i_id,
               ESSeen(sys.tk[i_id], ps_track_fill(i_id)),
               ~sys.tk[i_id].b_seen /\ ps_track_fill(i_id).ok)

\* AobCount without the test "p_sys->i_aob_mlp_count < 500"
AobCountUnbounded(i_count, i_id) ==
    IF i_id = PS_ID_AOB_MLP THEN i_count + 1
    ELSE IF i_id = PS_ID_LPCM_A1 /\ i_count > 0 THEN i_count - 1
    ELSE i_count

\* "Small heuristic to improve MLP detection from AOB": the counter, the id
AobCount(i_count, i_id) ==
    IF i_id = PS_ID_AOB_MLP /\ i_count < PS_AOB_MLP_MAX THEN i_count + 1
    ELSE IF i_id = PS_ID_LPCM_A1 /\ i_count > 0 THEN i_count - 1
    ELSE i_count

AobId(i_count, i_id) ==
    IF i_id = PS_ID_AOB_MLP /\ i_count < PS_AOB_MLP_MAX THEN i_id
    ELSE IF i_id = PS_ID_LPCM_A1 /\ i_count > 0 THEN PS_ID_AOB_MLP
    ELSE i_id

DemuxES(st, blk, sys) ==
    ESTrack(st, blk,
            [sys EXCEPT !.i_aob_mlp_count = AobCount(@, ps_pkt_id(st, blk))],
            AobId(sys.i_aob_mlp_count, ps_pkt_id(st, blk)))

\* the packet is released, whatever else its case did
Released(e, sys, added) ==
    [e EXCEPT !.sys = sys, !.added = added, !.released = 1]

Forwarded(e, es) ==
    [e EXCEPT !.sys = es.sys, !.added = es.added, !.pcr = es.pcr,
              !.sent = es.sent, !.released = es.released]

\* the switch on the stream id
DemuxSwitch(st, blk, sys, e, id) ==
    IF id = PS_STREAM_ID_END_STREAM THEN Released(e, sys, {})
    ELSE IF id = PS_STREAM_ID_PACK_HEADER
    THEN Released(e, DemuxPack(st, blk, sys), {})
    ELSE IF id = PS_STREAM_ID_SYSTEM_HEADER
    THEN Released(e, [sys EXCEPT !.tk = DemuxSystem(st, blk, sys).tk],
                  DemuxSystem(st, blk, sys).added)
    ELSE IF id = PS_STREAM_ID_MAP
    THEN Released(e, [sys EXCEPT !.psm = ps_psm_fill(st, blk, @)], {})
    ELSE IF id # PS_STREAM_ID_PRIVATE_STREAM1 /\ (id < 192 \/ id > 239)
    THEN Released(e, sys, {})
    \* the inputs carry no id outside the tracks of the model
    ELSE IF ps_pkt_id(st, blk) \notin DOMAIN sys.tk
    THEN Released(e, sys, {})
    ELSE Forwarded(e, DemuxES(st, blk, sys))

DemuxPacket(st, blk, sys, e) ==
    IF blk.len < 4
    THEN [e EXCEPT !.ret = VLC_DEMUXER_EGENERIC, !.released = 1,
                   !.pkt = blk, !.pos = blk.off + blk.len]
    ELSE DemuxSwitch(st, blk, sys,
                     [e EXCEPT !.ret = VLC_DEMUXER_SUCCESS,
                               !.pkt = blk,
                               !.id = At(st.data, blk.off + 3),
                               !.pos = blk.off + blk.len],
                     At(st.data, blk.off + 3))

\* if( ( p_pkt = ps_pkt_read( p_demux->s ) ) == NULL ) return EOF
DemuxRead(st, sys, fl, blk) ==
    IF blk.null THEN Effects(VLC_DEMUXER_EOF, blk.off, sys, 1, fl)
    ELSE DemuxPacket(st, blk, sys,
                     Effects(VLC_DEMUXER_EOF, blk.off, sys, 1, fl))

\* if( !FindLength( p_demux ) ) return VLC_DEMUXER_EGENERIC
DemuxProbed(st, fl) ==
    IF ~fl.ok
    THEN [Effects(VLC_DEMUXER_EGENERIC, fl.pos, fl.sys, 1, "failed")
            EXCEPT !.probe = fl.probe]
    ELSE [DemuxRead(st, fl.sys, "ok", ps_pkt_read(st.data, fl.pos).blk)
            EXCEPT !.probe = fl.probe]

\* the sync code is found
DemuxSynced(st, pos, sys, trust, tail_ok, restore_ok) ==
    IF sys.i_length < 0 /\ sys.b_seekable
    THEN [DemuxProbed(st, FindLength([st EXCEPT !.pos = pos], sys, trust,
                                     tail_ok, restore_ok))
            EXCEPT !.at = pos]
    ELSE [DemuxRead(st, sys, "none", ps_pkt_read(st.data, pos).blk)
            EXCEPT !.at = pos]

\* garbage at input: the tracks are notified once per loss of sync
DemuxLost(pos, sys, sel) ==
    IF ~sys.b_lost_sync
    THEN [Effects(VLC_DEMUXER_SUCCESS, pos,
                  [sys EXCEPT !.b_lost_sync = TRUE,
                              !.tk = NotifyDiscontinuity(@, sel)], 0, "none")
            EXCEPT !.notified = 1]
    ELSE Effects(VLC_DEMUXER_SUCCESS, pos,
                 [sys EXCEPT !.b_lost_sync = TRUE], 0, "none")

\* DemuxResynched with the stream left where it was when no header is found
DemuxResynchedStays(st, sys, trust, sel, tail_ok, restore_ok, r) ==
    IF r.ret < 0
    THEN Effects(VLC_DEMUXER_EOF, st.pos + r.skip, sys, r.ret, "none")
    ELSE IF r.ret = 0 THEN DemuxLost(st.pos, sys, sel)
    ELSE DemuxSynced(st, st.pos + r.skip,
                     [sys EXCEPT !.b_lost_sync = FALSE],
                     trust, tail_ok, restore_ok)

DemuxResynched(st, sys, trust, sel, tail_ok, restore_ok, r) ==
    IF r.ret < 0
    THEN Effects(VLC_DEMUXER_EOF, st.pos + r.skip, sys, r.ret, "none")
    ELSE IF r.ret = 0 THEN DemuxLost(st.pos + r.skip, sys, sel)
    ELSE DemuxSynced(st, st.pos + r.skip,
                     [sys EXCEPT !.b_lost_sync = FALSE],
                     trust, tail_ok, restore_ok)

Demux(st, sys, trust, sel, tail_ok, restore_ok) ==
    DemuxResynched(st, sys, trust, sel, tail_ok, restore_ok,
                   ps_pkt_resynch(st.data, st.pos, sys.b_cdxa,
                                  sys.b_have_pack))

(***************************************************************************)
(* Control.  [ret, pos, sys, notified, val]: val is the value written      *)
(* through the query's pointer argument.                                   *)
(***************************************************************************)
Answer(ret, pos, sys, notified, val) ==
    [ret |-> ret, pos |-> pos, sys |-> sys, notified |-> notified,
     val |-> val]

\* i_pos *= (float)i64 / (float)i_now, without the rounding of float
ScalePos(i_pos, i64, i_now) ==
    IF i_now > 0 THEN (i_pos * i64) \div i_now
    ELSE 0 - ((i_pos * i64) \div (0 - i_now))

\* ControlSeeked with the SCR enabled again by an accepted seek
ControlSeekedEnablesScr(sys, sk, sel) ==
    IF sk.ok
    THEN Answer(VLC_SUCCESS, sk.pos,
                [sys EXCEPT !.tk = NotifyDiscontinuity(@, sel),
                            !.b_bad_scr = FALSE], 1, 0)
    ELSE Answer(VLC_EGENERIC, sk.pos, sys, 0, 0)

\* after the seek of a DEMUX_SET_POSITION or DEMUX_SET_TIME
ControlSeeked(sys, sk, sel) ==
    IF sk.ok
    THEN Answer(VLC_SUCCESS, sk.pos,
                [sys EXCEPT !.tk = NotifyDiscontinuity(@, sel)], 1, 0)
    ELSE Answer(VLC_EGENERIC, sk.pos, sys, 0, 0)

\* DEMUX_SET_POSITION without "p_sys->i_current_pts = 0"
ControlSetPositionKeepsPts(st, sys, num, den, sel, granted) ==
    ControlSeeked([sys EXCEPT !.i_last_scr = -1],
                  vlc_stream_Seek(st, (Len(st.data) * num) \div den, granted),
                  sel)

\* case DEMUX_SET_POSITION: f is num/den of the stream size
ControlSetPosition(st, sys, num, den, sel, granted) ==
    ControlSeeked([sys EXCEPT !.i_current_pts = 0, !.i_last_scr = -1],
                  vlc_stream_Seek(st, (Len(st.data) * num) \div den, granted),
                  sel)

\* DEMUX_SET_TIME answering success for any target when i_now is 0
ControlSetTimeNowAccepts(st, sys, i64, sel, granted, i_now) ==
    IF i_now = 0
    THEN Answer(VLC_SUCCESS, st.pos, sys, 0, 0)
    ELSE ControlSeeked([sys EXCEPT !.i_current_pts = 0, !.i_last_scr = -1],
                       vlc_stream_Seek(st, ScalePos(st.pos, i64, i_now),
                                       granted),
                       sel)

\* case DEMUX_SET_TIME, with a time track and a current timestamp
ControlSetTimeNow(st, sys, i64, sel, granted, i_now) ==
    IF i_now = 0
    THEN Answer(IF i64 # 0 THEN VLC_EGENERIC ELSE VLC_SUCCESS,
                st.pos, sys, 0, 0)
    ELSE ControlSeeked([sys EXCEPT !.i_current_pts = 0, !.i_last_scr = -1],
                       vlc_stream_Seek(st, ScalePos(st.pos, i64, i_now),
                                       granted),
                       sel)

\* case DEMUX_SET_TIME
ControlSetTime(st, sys, i64, sel, granted) ==
    IF sys.i_time_track >= 0 /\ sys.i_current_pts > 0
    THEN ControlSetTimeNow(st, sys, i64, sel, granted,
                           sys.i_current_pts
                             - sys.tk[sys.i_time_track].i_first_pts)
    ELSE Answer(VLC_EGENERIC, st.pos, sys, 0, 0)

\* the requests that move the read position; the queries that only read the
\* state (DEMUX_GET_TIME, DEMUX_GET_LENGTH, ...) are not part of the model
Control(st, sys, i_query, arg, sel, granted) ==
    IF i_query = "DEMUX_SET_POSITION"
    THEN ControlSetPosition(st, sys, arg, 2, sel, granted)
    ELSE IF i_query = "DEMUX_SET_TIME"
    THEN ControlSetTime(st, sys, arg, sel, granted)
    ELSE Answer(VLC_EGENERIC, st.pos, sys, 0, 0)

(***************************************************************************)
(* The input files of the engine: up to MaxChunks pieces, each a packet    *)
(* with what the parsers find in it, or garbage.                           *)
(***************************************************************************)
MaxChunks == 3
\* Control requests that seek, per run
MaxControl == 1

Fill(n, b) == [i \in 1..n |-> b]

Piece(bytes, info) == [bytes |-> bytes, info |-> [info EXCEPT !.len = Len(bytes)]]

\* a pack header with SCR 0
PackSCR0 ==
    Piece(<<0, 0, 1, 186, 68, 0, 4, 0, 4, 1, 1, 137, 195, 248>>,
          [NoInfo EXCEPT !.pack_ok = TRUE, !.scr = 0, !.mux = 2500])
\* a pack header with SCR 3000000 and no mux rate
PackLate ==
    Piece(<<0, 0, 1, 186, 68, 32, 244, 0, 4, 1, 0, 0, 3, 248>>,
          [NoInfo EXCEPT !.pack_ok = TRUE, !.scr = 3000000, !.mux = 0])
\* video packets of id 0xE0, 20 bytes, PTS 90000 and 2090000
Video90k ==
    Piece(<<0, 0, 1, 224, 0, 14>> \o Fill(14, 17),
          [NoInfo EXCEPT !.pes_ok = TRUE, !.pts = 90000])
Video2s ==
    Piece(<<0, 0, 1, 224, 0, 14>> \o Fill(14, 18),
          [NoInfo EXCEPT !.pes_ok = TRUE, !.pts = 2090000])
\* an audio packet of id 0xC0
Audio ==
    Piece(<<0, 0, 1, 192, 0, 2, 19, 19>>,
          [NoInfo EXCEPT !.pes_ok = TRUE, !.pts = 590000])
\* a system header declaring the audio stream 0xC0
SystemHeader ==
    Piece(<<0, 0, 1, 187, 0, 6, 128, 196, 225, 4, 225, 127>>,
          [NoInfo EXCEPT !.sys_ok = TRUE, !.sys = {192}])
\* a program stream map, version 1
Map ==
    Piece(<<0, 0, 1, 188, 0, 4, 129, 255, 0, 0>>,
          [NoInfo EXCEPT !.psm_ok = TRUE, !.psm_version = 1])
\* the end code
EndCode == Piece(<<0, 0, 1, 185>>, NoInfo)
\* a video header declaring no payload: the packet runs to the next header
ShortVideo == Piece(<<0, 0, 1, 224, 0, 0, 20, 20>>, NoInfo)
\* bytes that hold no header
Garbage == Piece(<<255, 255, 255, 255, 255>>, NoInfo)

Pieces ==
    <<PackSCR0, Video90k, Video2s, Audio, SystemHeader, Map, EndCode,
      ShortVideo, Garbage, PackLate>>

Layouts == UNION {[1..n -> 1..Len(Pieces)] : n \in 1..MaxChunks}

RECURSIVE DataOf(_, _)
DataOf(f, k) ==
    IF k > Len(f) THEN <<>> ELSE Pieces[f[k]].bytes \o DataOf(f, k + 1)

RECURSIVE OffsetOf(_, _)
OffsetOf(f, k) ==
    IF k = 1 THEN 0 ELSE OffsetOf(f, k - 1) + Len(Pieces[f[k - 1]].bytes)

InfoMapOf(f) ==
    LET at == {k \in 1..Len(f) : Pieces[f[k]].info # Garbage.info
                                 \/ IsStartCode(Pieces[f[k]].bytes, 0)}
    IN  [o \in {OffsetOf(f, k) : k \in at} |->
            Pieces[f[CHOOSE k \in at : OffsetOf(f, k) = o]].info]

(***************************************************************************)
(* OpenCommon with b_force: the state of a fresh engine.                   *)
(***************************************************************************)
\* "RIFF" at 0 and "CDXA" at 8 of the 16 peeked bytes
IsCdxa(p) ==
    /\ SubSeq(p, 1, 4) = <<82, 73, 70, 70>>
    /\ SubSeq(p, 9, 12) = <<67, 68, 88, 65>>

OpenCommon(b_cdxa, b_seekable) ==
    [tk |-> ps_track_init,
     i_mux_rate |-> 0, i_scr |-> -1, i_last_scr |-> -1, i_length |-> -1,
     i_current_pts |-> 0, i_time_track |-> -1, i_aob_mlp_count |-> 0,
     b_lost_sync |-> FALSE, b_have_pack |-> FALSE, b_bad_scr |-> FALSE,
     b_seekable |-> b_seekable, b_cdxa |-> b_cdxa,
     psm |-> PSM_VERSION_UNSET]

\* nothing asked of the es_out yet; sync is the result of the latest resynch
\* of Demux (2: none), ctl the number of seeking Control requests, probes the
\* number of FindLength calls that probed the stream, seeks the number of
\* vlc_stream_Seek calls FindLength made, scrs the number of
\* ES_OUT_SET_PCR calls that carried the SCR since the latest pack header,
\* and run the number n of Demux calls that have returned
\* VLC_DEMUXER_SUCCESS in a row since the stream was at the position from
OutInit ==
    [add |-> [i \in TkIds |-> 0], sent |-> <<>>, pcr |-> <<>>, sync |-> 2,
     ctl |-> 0, probes |-> 0, seeks |-> 0, scrs |-> 0,
     run |-> [n |-> 0, from |-> 0]]

Init ==
    \E f \in Layouts, b_seekable \in BOOLEAN, trust \in BOOLEAN :
        \* the option is read by FindLength, which only a seekable input calls
        /\ (~b_seekable => trust)
        /\ Len(DataOf(f, 1)) >= PS_OPEN_PEEK
        /\ s = [data |-> DataOf(f, 1), pos |-> 0, info |-> InfoMapOf(f),
                seekable |-> b_seekable]
        /\ cfg = [trust |-> trust]
        /\ p_sys = OpenCommon(IsCdxa(vlc_stream_Peek(DataOf(f, 1), 0,
                                                     PS_OPEN_PEEK)),
                              b_seekable)
        /\ out = OutInit
        /\ last = [op |-> "Open"]

(***************************************************************************)
(* The calls the input thread makes.                                       *)
(***************************************************************************)
\* The answers of the environment a call can depend on: the selection state
\* of the tracks that have a sink, and whether a seek is granted.  A call
\* that asks nothing is given one answer.
Selections(sys) ==
    SUBSET {i \in DOMAIN sys.tk : sys.tk[i].b_seen /\ sys.tk[i].es}

\* the ES_OUT_SET_PCR calls of a Demux call that carried the SCR
PcrFromScr(pcr) == Cardinality({k \in 1..Len(pcr) : pcr[k].src = "scr"})

DemuxNotifies(st, sys) ==
    /\ ps_pkt_resynch(st.data, st.pos, sys.b_cdxa, sys.b_have_pack).ret = 0

DemuxProbes(st, sys, trust) ==
    /\ sys.i_length < 0 /\ sys.b_seekable /\ trust
    /\ ps_pkt_resynch(st.data, st.pos, sys.b_cdxa, sys.b_have_pack).ret = 1

DemuxDone(sel, d) ==
    /\ s' = [s EXCEPT !.pos = d.pos]
    /\ p_sys' = d.sys
    /\ out' = [out EXCEPT
                 !.add = [i \in DOMAIN out.add |->
                            IF i \in d.added THEN @[i] + 1 ELSE @[i]],
                 !.sent = @ \o d.sent,
                 !.pcr = @ \o d.pcr,
                 !.sync = d.sync,
                 !.probes = IF d.probe.probed THEN @ + 1 ELSE @,
                 !.seeks = @ + d.probe.seeks,
                 !.scrs = IF d.id = PS_STREAM_ID_PACK_HEADER THEN 0
                          ELSE @ + PcrFromScr(d.pcr),
                 !.run = IF d.ret = VLC_DEMUXER_SUCCESS
                         THEN [@ EXCEPT !.n = @ + 1]
                         ELSE [n |-> 0, from |-> d.pos]]
    /\ last' = [op |-> "Demux", ret |-> d.ret, sync |-> d.sync,
                sync_before |-> out.sync, pos0 |-> s.pos,
                scr0 |-> p_sys.i_scr, bad0 |-> p_sys.b_bad_scr,
                lost0 |-> p_sys.b_lost_sync, tk0 |-> p_sys.tk,
                added |-> d.added, pcr |-> d.pcr, sent |-> d.sent,
                released |-> d.released, notified |-> d.notified,
                sel |-> sel, fl |-> d.fl, pkt |-> d.pkt, id |-> d.id,
                probe |-> d.probe, at |-> d.at,
                pack0 |-> p_sys.b_have_pack, mux0 |-> p_sys.i_mux_rate,
                len0 |-> p_sys.i_length, aob0 |-> p_sys.i_aob_mlp_count]
    /\ UNCHANGED cfg

DemuxCall ==
    \E sel \in IF DemuxNotifies(s, p_sys) THEN Selections(p_sys) ELSE {{}},
       seeks \in IF DemuxProbes(s, p_sys, cfg.trust)
                 THEN {<<TRUE, TRUE>>, <<TRUE, FALSE>>, <<FALSE, FALSE>>}
                 ELSE {<<TRUE, TRUE>>} :
        DemuxDone(sel, Demux(s, p_sys, cfg.trust, sel, seeks[1], seeks[2]))

ControlDone(i_query, arg, sel, granted, c) ==
    /\ s' = [s EXCEPT !.pos = c.pos]
    /\ p_sys' = c.sys
    /\ last' = [op |-> i_query, arg |-> arg, ret |-> c.ret,
                val |-> c.val, pos0 |-> s.pos,
                cur0 |-> p_sys.i_current_pts, scr0 |-> p_sys.i_last_scr,
                bad0 |-> p_sys.b_bad_scr,
                tk0 |-> p_sys.tk, track0 |-> p_sys.i_time_track,
                notified |-> c.notified, sel |-> sel, granted |-> granted]
    /\ UNCHANGED cfg

ControlCall(i_query, arg) ==
    \E sel \in Selections(p_sys), granted \in BOOLEAN :
        ControlDone(i_query, arg, sel, granted,
                    Control(s, p_sys, i_query, arg, sel, granted))

SetPosition ==
    /\ out.ctl < MaxControl
    /\ \E num \in 0..1 :
           ControlCall("DEMUX_SET_POSITION", num)
    /\ out' = [out EXCEPT !.ctl = @ + 1,
                          !.run = [n |-> 0, from |-> s'.pos]]

SetTime ==
    /\ out.ctl < MaxControl
    /\ \E i64 \in {0, 1000000} :
           ControlCall("DEMUX_SET_TIME", i64)
    /\ out' = [out EXCEPT !.ctl = @ + 1,
                          !.run = [n |-> 0, from |-> s'.pos]]

Next == DemuxCall \/ SetPosition \/ SetTime

Spec == Init /\ [][Next]_vars

(***************************************************************************)
(* SpecPkt: ps_pkt_resynch and ps_pkt_read on byte streams.  A stream is a *)
(* lead (filler, or a CDXA sector boundary), a header, the bytes after it  *)
(* and a tail, with up to MaxCut bytes cut off its end.                    *)
(***************************************************************************)
\* the longest lead, just over the window of ps_pkt_resynch
MaxLead == 514
\* the most bytes between the header and the tail, just under the step of
\* ps_pkt_read
MaxMid == 1022
\* the most bytes cut off the end of a stream
MaxCut == 1

LeadLens == {0, 1, 4, 5, 48} \cup ((MaxLead - 8)..MaxLead)
MidLens == {0, 1, 2} \cup ((MaxMid - 1)..MaxMid)

\* 20 bytes of padding, a CRC that emulates a start code with them, the
\* CDXA sync code and the rest of the sector header
CdxaSector == Fill(20, 0) \o <<1, 186, 7, 7>> \o CdxaSyncCode \o Fill(12, 2)

Leads ==
    {Fill(n, b) : n \in LeadLens, b \in {0, 255}} \cup {CdxaSector}

\* no header, a pack header, packets declaring more than 6 bytes (video,
\* audio, a system header), headers declaring 6 bytes (a video stream, a
\* system header, a program stream map), the end code
Headers ==
    {<<>>, PackSCR0.bytes, Video90k.bytes, Audio.bytes, SystemHeader.bytes,
     <<0, 0, 1, 224, 0, 0>>, <<0, 0, 1, 187, 0, 0>>, <<0, 0, 1, 188, 0, 0>>,
     EndCode.bytes}

Tails == {<<>>, EndCode.bytes, EndCode.bytes \o <<5>>, PackSCR0.bytes}

InitPkt ==
    \E lead \in Leads, hdr \in Headers, mid \in MidLens, tail \in Tails,
       cut \in 0..MaxCut, b_cdxa \in BOOLEAN, b_pack \in BOOLEAN :
        /\ cut <= Len(lead \o hdr \o Fill(mid, 7) \o tail)
        /\ s = [data |-> SubSeq(lead \o hdr \o Fill(mid, 7) \o tail, 1,
                                Len(lead \o hdr \o Fill(mid, 7) \o tail)
                                  - cut),
                pos |-> 0, info |-> <<>>, seekable |-> FALSE]
        /\ cfg = [trust |-> TRUE]
        /\ p_sys = [OpenCommon(b_cdxa, FALSE) EXCEPT !.b_have_pack = b_pack]
        /\ out = OutInit
        /\ last = [op |-> "Open"]

PktResynched(r) ==
    /\ s' = [s EXCEPT !.pos = @ + r.skip]
    /\ last' = [op |-> "ps_pkt_resynch", ret |-> r.ret, n |-> r.skip,
                pos0 |-> s.pos]
    /\ UNCHANGED <<cfg, p_sys, out>>

\* one call of ps_pkt_resynch, until it reports the end of the stream
PktResynch ==
    /\ ~(last.op = "ps_pkt_resynch" /\ last.ret = -1)
    /\ PktResynched(ps_pkt_resynch(s.data, s.pos, p_sys.b_cdxa,
                                   p_sys.b_have_pack))

PktReadDone(r) ==
    /\ s' = [s EXCEPT !.pos = r.blk.off + r.blk.len]
    /\ last' = [op |-> "ps_pkt_read", null |-> r.blk.null,
                len |-> r.blk.len, n |-> r.blk.off + r.blk.len - s.pos,
                pos0 |-> s.pos, scan |-> r.scan]
    /\ UNCHANGED <<cfg, p_sys, out>>

\* one call of ps_pkt_read, at the header ps_pkt_resynch has found
PktRead ==
    /\ last.op = "ps_pkt_resynch" /\ last.ret = 1
    /\ PktReadDone(ps_pkt_read(s.data, s.pos))

NextPkt == PktResynch \/ PktRead

SpecPkt == InitPkt /\ [][NextPkt]_vars

(***************************************************************************)
(* SpecLen: the loop "Find the longest track" of FindLength on the first   *)
(* and last timestamps the probes may have left in the tracks.             *)
(***************************************************************************)
\* the timestamps are unset (-1) or a multiple of 1000 up to 1000 * MaxStamp
MaxStamp == 5

Stamps == {-1} \cup {1000 * k : k \in 1..MaxStamp}

InitLen ==
    \E first \in [TkIds -> Stamps], lst \in [TkIds -> Stamps] :
        /\ s = [data |-> <<>>, pos |-> 0, info |-> <<>>, seekable |-> TRUE]
        /\ cfg = [trust |-> TRUE]
        /\ p_sys = [OpenCommon(FALSE, TRUE) EXCEPT
                      !.i_length = 0,
                      !.tk = [i \in TkIds |->
                                [@[i] EXCEPT !.i_first_pts = first[i],
                                             !.i_last_pts = lst[i]]]]
        /\ out = OutInit
        /\ last = [op |-> "Open"]

FindLongestCall ==
    /\ last.op = "Open"
    /\ p_sys' = FindLongest(p_sys)
    /\ last' = [op |-> "FindLength"]
    /\ UNCHANGED <<s, cfg, out>>

NextLen == FindLongestCall

SpecLen == InitLen /\ [][NextLen]_vars

(***************************************************************************)
(* SpecProbe: Demux2 called packet by packet on the input files of the     *)
(* engine, from the head (b_end false) and from the tail (b_end true) in   *)
(* any order, with the seeks of FindLength in between.                     *)
(***************************************************************************)
\* the vlc_stream_Seek calls of one FindLength
MaxProbeSeeks == 2

InitProbe ==
    \E f \in Layouts :
        /\ Len(DataOf(f, 1)) >= PS_OPEN_PEEK
        /\ s = [data |-> DataOf(f, 1), pos |-> 0, info |-> InfoMapOf(f),
                seekable |-> TRUE]
        /\ cfg = [trust |-> TRUE]
        /\ p_sys = FindLengthFirst(OpenCommon(FALSE, TRUE))
        /\ out = OutInit
        /\ last = [op |-> "Open"]

ProbeDone(b_end, d) ==
    /\ s' = [s EXCEPT !.pos = d.pos]
    /\ p_sys' = d.sys
    /\ last' = [op |-> "Demux2", b_end |-> b_end, ret |-> d.ret,
                read |-> d.read, pos0 |-> s.pos, tk0 |-> p_sys.tk]
    /\ UNCHANGED <<cfg, out>>

\* Demux2( p_demux, false ), while the probe has not met the end
ProbeForward ==
    /\ ~(last.op = "Demux2" /\ last.ret <= 0)
    /\ ProbeDone(FALSE, Demux2(s, s.pos, p_sys, FALSE))

\* Demux2( p_demux, true )
ProbeTail ==
    /\ ~(last.op = "Demux2" /\ last.ret <= 0)
    /\ ProbeDone(TRUE, Demux2(s, s.pos, p_sys, TRUE))

\* the seek to the tail, or back: both to offset 0 on files this short
ProbeSeek ==
    /\ out.seeks < MaxProbeSeeks
    /\ s' = [s EXCEPT !.pos = vlc_stream_Seek(s,
                                 Len(s.data) - VLC_CLIP(Len(s.data), 0,
                                                        PS_TAIL_BYTES),
                                 TRUE).pos]
    /\ out' = [out EXCEPT !.seeks = @ + 1]
    /\ last' = [op |-> "vlc_stream_Seek"]
    /\ UNCHANGED <<cfg, p_sys>>

NextProbe == ProbeForward \/ ProbeTail \/ ProbeSeek

SpecProbe == InitProbe /\ [][NextProbe]_vars

(***************************************************************************)
(* Properties of ps_pkt_resynch and ps_pkt_read, under SpecPkt.            *)
(***************************************************************************)
\* C1: a call of ps_pkt_resynch consumes at most 512 bytes and returns -1,
\* 0 or 1, whatever the stream and the flags b_cdxa and b_pack.
C1_ResynchBounded ==
    last.op = "ps_pkt_resynch" =>
        /\ last.n >= 0 /\ last.n <= 512
        /\ last.ret \in {-1, 0, 1}

\* a call that found no header in a full window and consumed all it may
C1_Witness ==
    /\ last.op = "ps_pkt_resynch" /\ last.ret = 0
    /\ last.n = PS_RESYNCH_WINDOW - 3
    /\ Len(s.data) - last.pos0 > PS_RESYNCH_WINDOW

\* the header ps_pkt_read was called at, the size it declares, and the
\* bytes the stream held from there
HeaderRead == vlc_stream_Peek(s.data, last.pos0, PS_READ_PEEK)
SizeRead == ps_pkt_size(HeaderRead, Len(HeaderRead))
Remaining == Len(s.data) - last.pos0

\* ps_pkt_read was called at a header that declares more than 6 bytes and is
\* not in the fallback case
SizedRead ==
    /\ last.op = "ps_pkt_read"
    /\ SizeRead > 6
    /\ ~(SizeRead <= 6 /\ At(HeaderRead, 3) > PS_STREAM_ID_PACK_HEADER)

\* C8 as stated: at such a header, declaring L bytes, ps_pkt_read returns a
\* buffer of L bytes, consumes L bytes and does not search for a start code.
C8_ExactlyDeclared ==
    SizedRead =>
        /\ ~last.null /\ last.len = SizeRead
        /\ last.n = SizeRead
        /\ ~last.scan

\* C8, amended: at such a header, declaring L bytes, ps_pkt_read returns a
\* buffer of L bytes when the stream holds L bytes from the header on and of
\* the bytes that remain when it holds fewer; it consumes the bytes of the
\* buffer and does not search for a start code.
C8_DeclaredOrRemaining ==
    SizedRead =>
        /\ ~last.null
        /\ last.len = IF Remaining >= SizeRead THEN SizeRead ELSE Remaining
        /\ last.n = last.len
        /\ ~last.scan

\* a packet declaring 20 bytes read whole from a stream that goes on
C8_Witness ==
    /\ SizedRead /\ SizeRead = 20 /\ Remaining > 20
    /\ last.len = 20 /\ last.n = 20

\* the offset from the header of the first start code at or after its 6
\* bytes, -1 when there is none
NextStartCode ==
    FirstOf({i \in 6..(Remaining - 4) :
                 IsStartCode(s.data, last.pos0 + i)}, -1)

\* C9: at a header above the pack header id that declares 6 bytes or fewer,
\* ps_pkt_read returns a buffer that ends where the next start code begins,
\* wherever it lies, and NULL only when there is no further start code.
C9_ReadToNextStartCode ==
    ( /\ last.op = "ps_pkt_read"
      /\ SizeRead <= 6
      /\ At(HeaderRead, 3) > PS_STREAM_ID_PACK_HEADER )
    => IF NextStartCode >= 0
       THEN ~last.null /\ last.len = NextStartCode
       ELSE last.null

(***************************************************************************)
(* Properties of the longest-track selection, under SpecLen.               *)
(***************************************************************************)
\* last - first of a track, an unset timestamp counting as -1
Span(i) == p_sys.tk[i].i_last_pts - p_sys.tk[i].i_first_pts

\* the tracks FindLength measures: a last timestamp above 0 and above first
Measured ==
    {i \in TkIds : p_sys.tk[i].i_last_pts > 0
                   /\ p_sys.tk[i].i_last_pts > p_sys.tk[i].i_first_pts}

\* C7 as stated: after the estimation i_length is the greatest last - first
\* of all tracks and i_time_track is a track of that span.
C7_LongestOfAll ==
    last.op = "FindLength" =>
        /\ \A i \in TkIds : Span(i) <= p_sys.i_length
        /\ p_sys.i_time_track \in TkIds
        /\ Span(p_sys.i_time_track) = p_sys.i_length

\* C7, amended: after the estimation i_length is the greatest last - first
\* (an unset first counting as -1) of the tracks whose last timestamp is
\* set and above their first, and i_time_track is a track of that span;
\* when there is no such track i_length is 0 and no time track is chosen.
C7_LongestMeasured ==
    last.op = "FindLength" =>
        IF Measured = {}
        THEN p_sys.i_length = 0 /\ p_sys.i_time_track = -1
        ELSE /\ \A i \in Measured : Span(i) <= p_sys.i_length
             /\ p_sys.i_time_track \in Measured
             /\ Span(p_sys.i_time_track) = p_sys.i_length

\* track A (0xC0) from 1000 to 5000 and track B (0xE0) from 2000 to 3000:
\* a length of 4000 with A as the time track
C7_Witness ==
    /\ last.op = "FindLength"
    /\ p_sys.tk[192].i_first_pts = 1000 /\ p_sys.tk[192].i_last_pts = 5000
    /\ p_sys.tk[224].i_first_pts = 2000 /\ p_sys.tk[224].i_last_pts = 3000
    /\ p_sys.i_length = 4000 /\ p_sys.i_time_track = 192

(***************************************************************************)
(* Properties of the engine, under Spec.                                   *)
(***************************************************************************)
\* the tracks NotifyDiscontinuity flags: seen, with a sink, and selected
Flagged(tk, sel) == {i \in TkIds : tk[i].b_seen /\ tk[i].es /\ i \in sel}

\* the tracks tk as left by one notification of the tracks of tk0
NotifiedOnce(tk0, tk, sel) ==
    \A i \in TkIds :
        tk[i].i_next_block_flags =
            IF i \in Flagged(tk0, sel) THEN BLOCK_FLAG_DISCONTINUITY
            ELSE tk0[i].i_next_block_flags

\* the ES_OUT_SET_PCR calls of a sequence that carry the SCR
ScrPushes(pcr) == {k \in 1..Len(pcr) : pcr[k].src = "scr"}

\* C2: a Demux call whose resync returns 0 when the resync of the Demux
\* call before returned 1, or when there was none, flags every seen,
\* sink-bearing, selected track once; a further Demux call whose resync
\* returns 0 notifies nothing, and so does one whose resync returns 1.
C2_NotifyOncePerLoss ==
    last.op = "Demux" =>
        /\ (last.sync = 0 /\ last.sync_before \in {1, 2}) =>
               /\ last.notified = 1
               /\ \A i \in Flagged(last.tk0, last.sel) :
                      p_sys.tk[i].i_next_block_flags = BLOCK_FLAG_DISCONTINUITY
        /\ (last.sync = 0 /\ last.sync_before = 0) => last.notified = 0
        /\ last.sync = 1 => last.notified = 0

ESHandled == last.op = "Demux" /\ last.ret = VLC_DEMUXER_SUCCESS
             /\ last.id \in TkIds

\* the timestamp the PES header of the last packet carries
PacketPts == ps_pkt_parse_pes(s, last.pkt).pts

\* C4 as stated: a payload packet of an audio or video track with timestamp
\* T, handled with the SCR S of a pack header pending and T - S greater
\* than CLOCK_FREQ, leaves the SCR disabled.
C4_DisabledByPacketPts ==
    ( /\ ESHandled
      /\ last.scr0 >= 0
      /\ p_sys.tk[last.id].i_cat \in {AUDIO_ES, VIDEO_ES}
      /\ PacketPts - last.scr0 > CLOCK_FREQ )
    => p_sys.b_bad_scr

\* the offset test of the code applies to the last call
C4_OffsetCase ==
    /\ ESHandled
    /\ last.scr0 >= 0
    /\ p_sys.tk[last.id].i_cat \in {AUDIO_ES, VIDEO_ES}
    /\ p_sys.tk[last.id].i_first_pts > VLC_TS_INVALID
    /\ p_sys.tk[last.id].i_first_pts - last.scr0 > CLOCK_FREQ

\* C4, amended: a payload packet of an audio or video track whose first
\* timestamp F is known, handled with the SCR S of a pack header pending and
\* F - S greater than CLOCK_FREQ, leaves the SCR disabled and pushes no SCR;
\* once the SCR is disabled it stays disabled and no call pushes an SCR.
C4_DisabledByFirstPts ==
    /\ [](C4_OffsetCase => p_sys.b_bad_scr /\ ScrPushes(last.pcr) = {})
    /\ [][p_sys.b_bad_scr =>
            /\ p_sys'.b_bad_scr
            /\ ScrPushes(out'.pcr) = ScrPushes(out.pcr)]_vars

\* the SCR was usable before the call and the offset test disabled it
C4_Witness == C4_OffsetCase /\ ~last.bad0 /\ p_sys.b_bad_scr

\* the last call is a request that seeks
Seeking == last.op \in {"DEMUX_SET_POSITION", "DEMUX_SET_TIME"}

\* the elapsed time DEMUX_SET_TIME computes, when there is a time track
Now0 == last.cur0 - last.tk0[last.track0].i_first_pts

\* DEMUX_SET_TIME got as far as the seek
TimeSeeks == last.track0 >= 0 /\ last.cur0 > 0 /\ Now0 # 0

\* the source accepted the seek of the last request
SeekAccepted == s.seekable /\ last.granted

\* C5 as stated: every DEMUX_SET_POSITION and DEMUX_SET_TIME leaves
\* i_current_pts at 0 and i_last_scr unset, and flags the seen, sink-bearing,
\* selected tracks and no other.
C5_EverySeekResets ==
    Seeking =>
        /\ p_sys.i_current_pts = 0
        /\ p_sys.i_last_scr = -1
        /\ NotifiedOnce(last.tk0, p_sys.tk, last.sel)

\* C5, amended: DEMUX_SET_POSITION always leaves i_current_pts at 0 and
\* i_last_scr unset; DEMUX_SET_TIME does when there is a time track, a
\* positive i_current_pts and a nonzero elapsed time, and leaves both as
\* they were otherwise.  A request whose seek the source accepts flags the
\* seen, sink-bearing, selected tracks and no other; any other request
\* leaves the tracks as they were.
C5_SeekResets ==
    Seeking =>
        /\ IF last.op = "DEMUX_SET_POSITION" \/ TimeSeeks
           THEN p_sys.i_current_pts = 0 /\ p_sys.i_last_scr = -1
           ELSE p_sys.i_current_pts = last.cur0
                /\ p_sys.i_last_scr = last.scr0
        /\ IF (last.op = "DEMUX_SET_POSITION" \/ TimeSeeks) /\ SeekAccepted
           THEN NotifiedOnce(last.tk0, p_sys.tk, last.sel)
           ELSE p_sys.tk = last.tk0

\* a DEMUX_SET_TIME that seeks, with a timestamp and an SCR to reset and a
\* selected track to flag
C5_Witness ==
    /\ last.op = "DEMUX_SET_TIME" /\ TimeSeeks /\ SeekAccepted
    /\ last.scr0 >= 0
    /\ Flagged(last.tk0, last.sel) # {}
    /\ \E i \in TkIds : i \notin Flagged(last.tk0, last.sel)

\* C6 as stated: DEMUX_SET_TIME to 0 succeeds; DEMUX_SET_TIME to another
\* time fails when there is no time track or the elapsed time is 0.
C6_TimeZeroSucceeds ==
    last.op = "DEMUX_SET_TIME" =>
        /\ last.arg = 0 => last.ret = VLC_SUCCESS
        /\ (last.arg # 0 /\ (last.track0 < 0 \/ Now0 = 0)) =>
               last.ret = VLC_EGENERIC

\* C6, amended: DEMUX_SET_TIME to 0 succeeds exactly when there is a time
\* track and a positive i_current_pts, and either the elapsed time is 0 or
\* the source accepts the seek; DEMUX_SET_TIME to another time fails when
\* there is no time track or the elapsed time is 0.
C6_SetTime ==
    last.op = "DEMUX_SET_TIME" =>
        /\ last.arg = 0 =>
               (last.ret = VLC_SUCCESS <=>
                    /\ last.track0 >= 0 /\ last.cur0 > 0
                    /\ (Now0 = 0 \/ SeekAccepted))
        /\ (last.arg # 0 /\ (last.track0 < 0 \/ Now0 = 0)) =>
               last.ret = VLC_EGENERIC

\* DEMUX_SET_TIME to 0 answered with success at an elapsed time of 0
C6_Witness ==
    /\ last.op = "DEMUX_SET_TIME" /\ last.arg = 0
    /\ last.track0 >= 0 /\ last.cur0 > 0 /\ Now0 = 0
    /\ last.ret = VLC_SUCCESS

\* the input of C10: a pack header with SCR 0, a video packet of id 0xE0
\* declaring 20 bytes with timestamp 90000, and the end code; not seekable,
\* and driven by Demux calls alone
C10_Input ==
    /\ s.data = PackSCR0.bytes \o Video90k.bytes \o EndCode.bytes
    /\ ~s.seekable
    /\ out.ctl = 0

\* C10: on that input no more than one sink is created, for id 0xE0, no
\* more than one buffer is sent, with timestamp 90000, and the clock is set
\* no more than once, from the SCR; when Demux has returned EOF there has
\* been exactly one of each.
C10_EndToEnd ==
    C10_Input =>
        /\ out.add[192] = 0 /\ out.add[224] <= 1
        /\ Len(out.sent) <= 1
        /\ \A k \in 1..Len(out.sent) :
               out.sent[k].tk = 224 /\ out.sent[k].pts = 90000
        /\ Len(out.pcr) <= 1
        /\ \A k \in 1..Len(out.pcr) :
               out.pcr[k] = [src |-> "scr", v |-> VLC_TS_0 + 0]
        /\ (last.op = "Demux" /\ last.ret = VLC_DEMUXER_EOF) =>
               /\ out.add[224] = 1
               /\ Len(out.sent) = 1
               /\ Len(out.pcr) = 1

\* Demux has returned EOF on the input of C10
C10_Witness ==
    /\ C10_Input
    /\ last.op = "Demux" /\ last.ret = VLC_DEMUXER_EOF
    /\ out.add[224] = 1 /\ Len(out.sent) = 1 /\ Len(out.pcr) = 1

(***************************************************************************)
(* The clock reference (Spec).                                      *)
(***************************************************************************)
\* C11: a Demux call pushes the SCR to the clock only when the SCR it found
\* pending was non-negative and not disabled, and it pushes that value; a
\* Demux call that handled a payload packet leaves the SCR unset; since the
\* latest pack header the SCR has been pushed no more than once.
C11_ScrConsumed ==
    /\ out.scrs <= 1
    /\ last.op = "Demux" =>
           /\ \A k \in ScrPushes(last.pcr) :
                  /\ last.scr0 >= 0 /\ ~last.bad0
                  /\ last.pcr[k].v = VLC_TS_0 + last.scr0
           /\ ESHandled => p_sys.i_scr = -1

\* a second payload packet after a pack header, whose SCR the first one
\* pushed: it finds no SCR and pushes none
C11_Witness ==
    /\ ESHandled
    /\ last.scr0 < 0 /\ ScrPushes(last.pcr) = {}
    /\ out.scrs = 1
    /\ Len(last.sent) = 1

\* C12: once b_bad_scr is true, no Demux call, with or without a length
\* estimation, and no Control request makes it false again.
C12_BadScrPermanent == [][p_sys.b_bad_scr => p_sys'.b_bad_scr]_vars

\* a seek was accepted while the SCR was disabled, and it still is
C12_Witness ==
    /\ Seeking /\ last.ret = VLC_SUCCESS
    /\ last.bad0 /\ p_sys.b_bad_scr

(***************************************************************************)
(* The resynchronizer in must-be-pack mode (SpecPkt).                      *)
(***************************************************************************)
\* ps_pkt_resynch was called with b_pack set and returned 1
PackSynced ==
    /\ last.op = "ps_pkt_resynch" /\ last.ret = 1
    /\ p_sys.b_have_pack

\* C13 as stated: with b_pack set, a return of 1 leaves the stream at a
\* start code whose id is the pack header, whether the header was at the
\* current position or later in the window.
C13_OnlyPack ==
    PackSynced =>
        /\ IsStartCode(s.data, s.pos)
        /\ At(s.data, s.pos + 3) = PS_STREAM_ID_PACK_HEADER

\* C13: with b_pack set, a return of 1 leaves the stream at a start code;
\* when bytes were consumed to reach it, its id is the pack header; when
\* none were, it is the start code at the current position, of any id.
C13_PackWhenScanned ==
    PackSynced =>
        /\ IsStartCode(s.data, s.pos)
        /\ last.n > 0 => At(s.data, s.pos + 3) = PS_STREAM_ID_PACK_HEADER
        /\ last.n = 0 => s.pos = last.pos0

\* the scan went over a header of another type to reach a pack header
C13_Witness ==
    /\ PackSynced
    /\ last.n > 0
    /\ At(s.data, s.pos + 3) = PS_STREAM_ID_PACK_HEADER
    /\ \E i \in last.pos0..(s.pos - 4) :
           /\ IsStartCode(s.data, i)
           /\ At(s.data, i + 3) # PS_STREAM_ID_PACK_HEADER

(***************************************************************************)
(* The packet buffers (Spec).                                              *)
(***************************************************************************)
\* C14: the packet ps_pkt_read returned to a Demux call is either sent to
\* a sink once or released once, and not both; a call that read no packet
\* sends and releases nothing; every packet the probes of Demux2 read in
\* the call is released once.
C14_ConsumedOnce ==
    last.op = "Demux" =>
        /\ ~last.pkt.null => Len(last.sent) + last.released = 1
        /\ last.pkt.null => Len(last.sent) = 0 /\ last.released = 0
        /\ last.probe.freed = last.probe.read

\* a Demux call whose probes read packets and whose own packet was sent
C14_Witness ==
    /\ last.op = "Demux"
    /\ last.probe.read > 1
    /\ ~last.pkt.null /\ Len(last.sent) = 1 /\ last.released = 0

(***************************************************************************)
(* The length estimation within Demux (Spec).                              *)
(***************************************************************************)
\* the last call was a Demux call whose FindLength probed the stream
Probing == last.op = "Demux" /\ last.probe.probed

\* C15: when FindLength has probed the stream and returned true, Demux
\* reads its packet at the position ps_pkt_resynch left the stream at; when
\* FindLength has returned false, the Demux call returns
\* VLC_DEMUXER_EGENERIC without reading a packet and the length is no
\* longer unknown; no Demux call made with the length known calls
\* FindLength.
C15_ProbeRestores ==
    /\ [](Probing =>
             /\ last.fl = "ok" => last.pkt.off = last.at
             /\ last.fl = "failed" =>
                    /\ last.ret = VLC_DEMUXER_EGENERIC
                    /\ last.pkt.null /\ last.sent = <<>>
                    /\ p_sys.i_length >= 0)
    /\ [][(p_sys.i_length >= 0 /\ last'.op = "Demux")
             => last'.fl = "none"]_vars

\* the probes have read packets from the head and from the tail, the seek
\* back was granted and Demux has read the packet the resync had found
\* after garbage
C15_Witness ==
    /\ Probing
    /\ last.fl = "ok" /\ last.probe.seeks = 2 /\ last.probe.read > 1
    /\ last.at > last.pos0
    /\ ~last.pkt.null /\ last.pkt.off = last.at

\* C16: FindLength probes the stream in no more than one Demux call of an
\* engine, and seeks no more than twice in all; the call that probes is
\* made on a seekable stream with the length unknown; a Demux call that
\* does not probe reads no packet for FindLength and makes it seek nowhere.
C16_ProbedOnce ==
    /\ out.probes <= 1 /\ out.seeks <= 2
    /\ Probing => s.seekable /\ p_sys.b_seekable /\ last.len0 = -1
    /\ (last.op = "Demux" /\ ~last.probe.probed) =>
           /\ last.probe.seeks = 0 /\ last.probe.read = 0

\* a later Demux call on the seekable stream, in sync and with no length
\* found by the probes of an earlier call, that has not probed
C16_Witness ==
    /\ last.op = "Demux" /\ last.sync = 1
    /\ s.seekable /\ cfg.trust
    /\ out.probes = 1 /\ ~last.probe.probed
    /\ last.len0 = 0 /\ p_sys.i_length = 0

(***************************************************************************)
(* The clock forced from a timestamp (Spec).                               *)
(***************************************************************************)
\* the last Demux call sent a packet that carries a timestamp
SentStamped ==
    /\ ESHandled /\ Len(last.sent) = 1
    /\ PacketPts > VLC_TS_INVALID

\* the packet's sink was created in the call
FreshTrack == last.id \in last.added

\* the call pushed the packet's timestamp to the clock
PtsPushed ==
    \E k \in 1..Len(last.pcr) :
        last.pcr[k] = [src |-> "pts", v |-> PacketPts]

\* C17 as stated: a sent packet with a timestamp has it pushed to the clock
\* whenever its track was created by the packet, or no pack header has
\* been seen, or the SCR is disabled.
C17_ForcedWhenever ==
    ( /\ SentStamped
      /\ FreshTrack \/ ~p_sys.b_have_pack \/ p_sys.b_bad_scr )
    => PtsPushed

\* C17: a sent packet with a timestamp has it pushed to the clock exactly
\* when its track is an audio track and either the SCR is disabled, or no
\* pack header has been seen and the track was not created by the packet.
C17_ForcedForAudio ==
    SentStamped =>
        ( PtsPushed <=>
            /\ p_sys.tk[last.id].i_cat = AUDIO_ES
            /\ \/ p_sys.b_bad_scr
               \/ ~p_sys.b_have_pack /\ ~FreshTrack )

\* the first packet of an audio track, after a pack header, with the SCR
\* disabled: its timestamp is pushed
C17_Witness ==
    /\ SentStamped /\ PtsPushed
    /\ p_sys.tk[last.id].i_cat = AUDIO_ES
    /\ FreshTrack /\ p_sys.b_have_pack /\ p_sys.b_bad_scr

(***************************************************************************)
(* The pack header (Spec).                                                 *)
(***************************************************************************)
\* the last Demux call dispatched a pack header
PackHandled ==
    /\ last.op = "Demux" /\ last.ret = VLC_DEMUXER_SUCCESS
    /\ last.id = PS_STREAM_ID_PACK_HEADER

\* what ps_pkt_parse_pack found in it
PackFound == ps_pkt_parse_pack(s, last.pkt)

\* C18: a Demux call that dispatches a pack header pushes nothing to the
\* clock and sends nothing; when the header parses, its SCR is left in both
\* i_scr and i_last_scr, b_have_pack is set and the mux rate is the parsed
\* one if that is positive and the rate before otherwise; b_have_pack, once
\* set, stays set.
C18_PackStoresScr ==
    /\ [](PackHandled =>
             /\ last.pcr = <<>> /\ last.sent = <<>>
             /\ PackFound.ok =>
                    /\ p_sys.i_scr = PackFound.scr
                    /\ p_sys.i_last_scr = PackFound.scr
                    /\ p_sys.b_have_pack
                    /\ p_sys.i_mux_rate = IF PackFound.mux > 0
                                          THEN PackFound.mux ELSE last.mux0)
    /\ [][p_sys.b_have_pack => p_sys'.b_have_pack]_vars

\* a pack header without a mux rate, after one that had set the rate
C18_Witness ==
    /\ PackHandled /\ PackFound.ok
    /\ PackFound.mux <= 0 /\ last.mux0 > 0
    /\ p_sys.i_mux_rate = last.mux0
    /\ p_sys.i_scr = PackFound.scr /\ p_sys.i_scr > 0

(***************************************************************************)
(* The headers ps_pkt_read reads by their declared length (SpecPkt).       *)
(***************************************************************************)
\* ps_pkt_read was called at a header of stream id i_id
ReadAt(i_id) ==
    /\ last.op = "ps_pkt_read"
    /\ Len(HeaderRead) >= 4 /\ At(HeaderRead, 3) = i_id

\* C19 as stated: at a pack header, a system header or a program stream
\* map, ps_pkt_read does not search for a start code, whatever size the
\* header declares.
C19_ExemptNeverScan ==
    \A i_id \in {PS_STREAM_ID_PACK_HEADER, PS_STREAM_ID_SYSTEM_HEADER,
                  PS_STREAM_ID_MAP} :
        ReadAt(i_id) => ~last.scan

\* C19: at a pack header ps_pkt_read does not search for a start code,
\* whatever size the header declares; at a system header or a program
\* stream map it searches exactly when the size is 6 or less, and reads
\* the declared size otherwise.
C19_PackNeverScans ==
    /\ ReadAt(PS_STREAM_ID_PACK_HEADER) =>
           /\ ~last.scan
           /\ SizeRead > 0 => ~last.null /\ last.len = Min(SizeRead, Remaining)
    /\ \A i_id \in {PS_STREAM_ID_SYSTEM_HEADER, PS_STREAM_ID_MAP} :
           ReadAt(i_id) =>
               /\ last.scan <=> SizeRead <= 6
               /\ SizeRead > 6 =>
                      ~last.null /\ last.len = Min(SizeRead, Remaining)

\* a system header that declares no payload: the search found the next
\* start code
C19_Witness ==
    /\ ReadAt(PS_STREAM_ID_SYSTEM_HEADER)
    /\ SizeRead = 6
    /\ last.scan /\ ~last.null /\ last.len > 6

(***************************************************************************)
(* The pending discontinuity of a track (Spec).                            *)
(***************************************************************************)
\* C20: a Demux call that notifies no discontinuity sends no more than one
\* buffer; the buffer carries the flags that were pending on its track and
\* leaves none pending on it; the flags of every other track, and those of
\* the track of a packet that was released, stay as they were.
C20_StampedOnNext ==
    (last.op = "Demux" /\ last.notified = 0) =>
        /\ Len(last.sent) <= 1
        /\ \A i \in TkIds :
               IF Len(last.sent) = 1 /\ last.sent[1].tk = i
               THEN /\ last.sent[1].flags = last.tk0[i].i_next_block_flags
                    /\ p_sys.tk[i].i_next_block_flags = 0
               ELSE p_sys.tk[i].i_next_block_flags
                        = last.tk0[i].i_next_block_flags

\* the buffer sent carries the discontinuity that was pending on its track
C20_Witness ==
    /\ last.op = "Demux" /\ last.notified = 0
    /\ Len(last.sent) = 1
    /\ last.sent[1].flags = BLOCK_FLAG_DISCONTINUITY
    /\ last.tk0[last.sent[1].tk].i_next_block_flags = BLOCK_FLAG_DISCONTINUITY
    /\ p_sys.tk[last.sent[1].tk].i_next_block_flags = 0

(***************************************************************************)
(* SpecRun: the loop of the input thread on a file that nobody seeks:      *)
(* Demux is called again and again.                                        *)
(***************************************************************************)
NextRun == DemuxCall

SpecRun == Init /\ [][NextRun]_vars

(***************************************************************************)
(* SpecAob: Demux on an AOB file, a packet of private stream 1 that        *)
(* ps_pkt_id takes for MLP (0xa001), one it takes for the LPCM substream   *)
(* (0xbda1) and an audio packet, read again and again after seeks back to  *)
(* the start.  No packet has a PES header that parses, so none is sent.    *)
(***************************************************************************)
AobMlp ==
    Piece(<<0, 0, 1, 189, 0, 10, 128, 0, 0, 161, 0, 0, 0, 0, 192, 0>>,
          [NoInfo EXCEPT !.id = PS_ID_AOB_MLP])
AobLpcm ==
    Piece(<<0, 0, 1, 189, 0, 10, 128, 0, 0, 161, 0, 0, 0, 0, 0, 128>>,
          [NoInfo EXCEPT !.id = PS_ID_LPCM_A1])
AobOther == Piece(<<0, 0, 1, 192, 0, 2, 21, 21>>, NoInfo)

AobSeq == <<AobMlp, AobLpcm, AobOther>>
AobIds == {192, PS_ID_LPCM_A1, PS_ID_AOB_MLP}

\* the files: the three packets in any order
AobLayouts == {f \in [1..3 -> 1..3] : \A i, j \in 1..3 : f[i] = f[j] => i = j}

AobData(f) == AobSeq[f[1]].bytes \o AobSeq[f[2]].bytes \o AobSeq[f[3]].bytes

AobInfo(f) ==
    (0 :> AobSeq[f[1]].info)
      @@ (Len(AobSeq[f[1]].bytes) :> AobSeq[f[2]].info)
      @@ (Len(AobSeq[f[1]].bytes) + Len(AobSeq[f[2]].bytes)
            :> AobSeq[f[3]].info)

InitAob ==
    \E f \in AobLayouts :
        /\ s = [data |-> AobData(f), pos |-> 0, info |-> AobInfo(f),
                seekable |-> TRUE]
        /\ cfg = [trust |-> FALSE]
        /\ p_sys = [OpenCommon(FALSE, TRUE) EXCEPT
                      !.tk = [i \in AobIds |-> ps_track_init[192]]]
        /\ out = [OutInit EXCEPT !.add = [i \in AobIds |-> 0]]
        /\ last = [op |-> "Open"]

\* DEMUX_SET_POSITION to the start of the file
AobRewind ==
    /\ s.pos > 0
    /\ ControlCall("DEMUX_SET_POSITION", 0)
    /\ out' = [out EXCEPT !.run = [n |-> 0, from |-> s'.pos]]

NextAob == DemuxCall \/ AobRewind

SpecAob == InitAob /\ [][NextAob]_vars

(***************************************************************************)
(* The timestamps the probes record (SpecProbe).                           *)
(***************************************************************************)
\* C21: over the Demux2 calls of the probes, from the head and from the
\* tail, and the seeks between them, the first timestamp of a track changes
\* only while it is unset and the last timestamp of a track never
\* decreases.
C21_StampsMonotonic ==
    [][\A i \in TkIds :
          /\ p_sys.tk[i].i_first_pts # -1
                => p_sys'.tk[i].i_first_pts = p_sys.tk[i].i_first_pts
          /\ p_sys'.tk[i].i_last_pts >= p_sys.tk[i].i_last_pts]_vars

\* the timestamp Demux2 found in the last packet it read
ProbedPts == ps_pkt_parse_pes(s, vlc_stream_Block(s.data, last.pos0,
                                                  s.pos - last.pos0)).pts

\* a packet probed from the tail whose timestamp is below the last one of
\* its track and differs from the first one, which was set: both are kept
C21_Witness ==
    /\ last.op = "Demux2" /\ last.b_end /\ last.read = 1
    /\ \E i \in TkIds :
           /\ At(s.data, last.pos0 + 3) = i
           /\ ProbedPts > VLC_TS_INVALID
           /\ ProbedPts < last.tk0[i].i_last_pts
           /\ last.tk0[i].i_first_pts \notin {-1, ProbedPts}
           /\ p_sys.tk[i] = last.tk0[i]

(***************************************************************************)
(* The counter of the AOB heuristic (SpecAob).                             *)
(***************************************************************************)
\* the last Demux call read a packet that ps_pkt_id gives the id i_id
AobRead(i_id) ==
    /\ last.op = "Demux" /\ ~last.pkt.null
    /\ ps_pkt_id(s, last.pkt) = i_id

\* C22: i_aob_mlp_count is within 0..500; a packet of id 0xa001 read with
\* the counter below 500 adds one to it; a packet of id 0xbda1 read with the
\* counter above 0 takes one from it and is handled on the track of 0xa001;
\* any other packet, or the same ones at the ends of the range, and any
\* step that is not a Demux call leave it as it was.
C22_CounterBounded ==
    /\ [](/\ p_sys.i_aob_mlp_count \in 0..PS_AOB_MLP_MAX
          /\ last.op = "Demux" =>
                 p_sys.i_aob_mlp_count =
                     IF AobRead(PS_ID_AOB_MLP) /\ last.aob0 < PS_AOB_MLP_MAX
                     THEN last.aob0 + 1
                     ELSE IF AobRead(PS_ID_LPCM_A1) /\ last.aob0 > 0
                     THEN last.aob0 - 1
                     ELSE last.aob0
          /\ (AobRead(PS_ID_LPCM_A1) /\ last.aob0 > 0) =>
                 /\ p_sys.tk[PS_ID_AOB_MLP].b_seen
                 /\ p_sys.tk[PS_ID_LPCM_A1] = last.tk0[PS_ID_LPCM_A1])
    /\ [][last'.op # "Demux"
            => p_sys'.i_aob_mlp_count = p_sys.i_aob_mlp_count]_vars

\* a packet of id 0xa001 read with the counter at 500
C22_Witness ==
    /\ AobRead(PS_ID_AOB_MLP)
    /\ last.aob0 = PS_AOB_MLP_MAX
    /\ p_sys.i_aob_mlp_count = PS_AOB_MLP_MAX

(***************************************************************************)
(* The end of the stream (SpecRun).                                        *)
(***************************************************************************)
\* the last Demux call returned VLC_DEMUXER_SUCCESS
DemuxSucceeded == last.op = "Demux" /\ last.ret = VLC_DEMUXER_SUCCESS

\* C23: a Demux call that returns VLC_DEMUXER_SUCCESS leaves the stream
\* further than it found it: by the bytes skipped when the resync found no
\* header, by a packet of at least one byte that ps_pkt_read returned
\* otherwise; and the Demux calls repeated on a file come to one that
\* returns VLC_DEMUXER_EOF or VLC_DEMUXER_EGENERIC, as no more of them
\* succeed in a row than the stream has moved bytes, of which the file has
\* Len(s.data).
C23_DemuxEnds ==
    /\ DemuxSucceeded =>
           /\ s.pos > last.pos0
           /\ last.sync \in {0, 1}
           /\ last.sync = 0 => last.pkt.null
           /\ last.sync = 1 =>
                  /\ ~last.pkt.null /\ last.pkt.len >= 1
                  /\ last.pkt.off >= last.pos0
                  /\ s.pos = last.pkt.off + last.pkt.len
    /\ out.run.n <= s.pos - out.run.from
    /\ s.pos <= Len(s.data)

\* the end of the file was met after a packet was sent and bytes that hold
\* no header were skipped
C23_Witness ==
    /\ last.op = "Demux" /\ last.ret = VLC_DEMUXER_EOF
    /\ Len(s.data) - s.pos < 4
    /\ p_sys.b_lost_sync
    /\ Len(out.sent) >= 1

====
